---- MODULE Spec2Model ----
(***************************************************************************)
(* Model of blitzdb.backends.base.Backend: the class registry (register,   *)
(* autoregister, get_collection_for_cls, get_cls_for_collection,           *)
(* create_instance), the recursive serializer and the recursive            *)
(* deserializer.                                                           *)
(*                                                                         *)
(* Python dicts are functions with a varying DOMAIN (the registry) or      *)
(* sequences of [k, v] pairs in insertion order (the values that are       *)
(* serialized).  Python values are tagged records.                         *)
(***************************************************************************)
EXTENDS Integers, Sequences, FiniteSets, TLC

VARIABLES classes, collections, allow_documents_in_query, pk, last

vars == <<classes, collections, allow_documents_in_query, pk, last>>

(***************************************************************************)
(* Bounds of the model.                                                    *)
(***************************************************************************)
\* embed_level is drawn from 0..MaxEmbedLevel
MaxEmbedLevel == 2

(***************************************************************************)
(* Python values.                                                          *)
(***************************************************************************)
None == [tag |-> "none"]
Num(n) == [tag |-> "int", v |-> n]
Text(s) == [tag |-> "str", v |-> s]
Dict(items) == [tag |-> "dict", items |-> items]
List(items) == [tag |-> "list", items |-> items]
Tuple(items) == [tag |-> "tuple", items |-> items]
Doc(d) == [tag |-> "doc", id |-> d]
KV(k, v) == [k |-> k, v |-> v]
EmptyDict == [k \in {} |-> k]

NoError == [type |-> "none"]
Raise(type) == [type |-> type]

\* key in d, d[key], d[key] = value and del d[key] on a dict value
HasKey(items, key) == \E i \in 1..Len(items) : items[i].k = key
Lookup(items, key) == items[CHOOSE i \in 1..Len(items) : items[i].k = key].v
SetKey(items, key, value) ==
    IF HasKey(items, key)
    THEN [i \in 1..Len(items) |-> IF items[i].k = key THEN KV(key, value) ELSE items[i]]
    ELSE Append(items, KV(key, value))
DelKey(items, key) == SelectSeq(items, LAMBDA e : e.k # key)

(***************************************************************************)
(* The document classes of the application (blitzdb.document), as the      *)
(* backend sees them: a name, a Meta attribute and a primary-key name.     *)
(***************************************************************************)
DocumentClasses == {"Author", "Book", "Novel"}
\* a class that is no subclass of Document
PlainClasses == {"Plain"}
\* the global list blitzdb.document.document_classes, in definition order
document_classes == <<"Author", "Book", "Novel">>

\* cls.__name__.lower()
LowerName(cls) ==
    CASE cls = "Author" -> "author"
      [] cls = "Book" -> "book"
      [] cls = "Novel" -> "novel"
      [] OTHER -> "plain"

\* The user attributes of cls.Meta.  Include paths are kept as their
\* fragments: "a.b" is <<"a", "b">>.
Meta(cls) ==
    CASE cls = "Author" -> ("dbref_includes" :> << <<"name">>, <<"a", "b">>, <<"zip">> >>)
      [] cls = "Novel" -> ("collection" :> "book")
      [] OTHER -> EmptyDict

CollectionNames == {"author", "book", "shelf"}

(***************************************************************************)
(* Class registry: register, lines 61-101.                                 *)
(***************************************************************************)
\* lines 82-89: the collection name the registration resolves to
ResolveCollectionName(cls, parameters) ==
    IF "collection" \in DOMAIN parameters THEN parameters["collection"]
    ELSE IF "collection" \in DOMAIN Meta(cls) THEN Meta(cls)["collection"]
    ELSE LowerName(cls)

\* a registration that evicts no entry
DeleteListNone(cls_map, collection_name) == {}

\* lines 91-94: the entries whose collection collides with the new name
DeleteList(cls_map, collection_name) ==
    {c \in DOMAIN cls_map :
        /\ "collection" \in DOMAIN cls_map[c]
        /\ cls_map[c]["collection"] = collection_name}

\* lines 100-101: parameters.copy() with 'collection' set
StoredParameters(parameters, collection_name) ==
    [k \in DOMAIN parameters \cup {"collection"} |->
        IF k = "collection" THEN collection_name ELSE parameters[k]]

\* lines 96-101: self.classes after register(cls, parameters)
RegisterClasses(cls_map, cls, parameters) ==
    LET collection_name == ResolveCollectionName(cls, parameters)
        kept == DOMAIN cls_map \ DeleteList(cls_map, collection_name)
    IN  [c \in kept \cup {cls} |->
            IF c = cls THEN StoredParameters(parameters, collection_name)
            ELSE cls_map[c]]

\* line 99: self.collections after register(cls, parameters)
RegisterCollections(col_map, cls, parameters) ==
    LET collection_name == ResolveCollectionName(cls, parameters)
    IN  [n \in DOMAIN col_map \cup {collection_name} |->
            IF n = collection_name THEN cls ELSE col_map[n]]

\* the registry as one value, as it is threaded through the serializer
Registry(cls_map, col_map) == [classes |-> cls_map, collections |-> col_map]

RegisterIn(reg, cls, parameters) ==
    Registry(RegisterClasses(reg.classes, cls, parameters),
             RegisterCollections(reg.collections, cls, parameters))

\* lines 103-116: the user attributes of cls.Meta
get_meta_attributes(cls) == Meta(cls)

\* lines 118-126
AutoregisterIn(reg, cls) == RegisterIn(reg, cls, get_meta_attributes(cls))

\* lines 273-287: the registry after the lookup, and what it returns
GetCollectionForClsIn(reg, cls) ==
    IF cls \notin DOMAIN reg.classes
    THEN IF cls \in DocumentClasses
         THEN LET r == AutoregisterIn(reg, cls)
              IN  [reg |-> r, err |-> NoError, out |-> r.classes[cls]["collection"]]
         ELSE [reg |-> reg, err |-> Raise("AttributeError"), out |-> ""]
    ELSE [reg |-> reg, err |-> NoError, out |-> reg.classes[cls]["collection"]]

\* lines 289-300: linear search over the registry entries
GetClsForCollectionIn(reg, collection) ==
    LET hits == {c \in DOMAIN reg.classes : reg.classes[c]["collection"] = collection}
    IN  IF hits # {}
        THEN [err |-> NoError, out |-> CHOOSE c \in hits : TRUE]
        ELSE [err |-> Raise("AttributeError"), out |-> ""]

\* lines 52-59: register every discovered class, in order
RECURSIVE AutodiscoverFrom(_, _)
AutodiscoverFrom(reg, i) ==
    IF i > Len(document_classes) THEN reg
    ELSE AutodiscoverFrom(RegisterIn(reg, document_classes[i], EmptyDict), i + 1)

(***************************************************************************)
(* The documents of the application.  What a Document does (blitzdb.       *)
(* document) is outside base.py: its attributes, lazy_attributes, eager,   *)
(* save and serialize follow the capability set the serializer requires    *)
(* of a document.                                                          *)
(***************************************************************************)
DocIds == 1..9

DocClass(d) ==
    CASE d \in {1, 9} -> "Book"
      [] d \in {2, 3, 4} -> "Author"
      [] OTHER -> "Novel"

\* obj._lazy
IsLazy(d) == d \in {5, 7, 8, 9}
\* obj.embed
EmbedFlag(d) == d \in {6, 7}
\* whether the record a lazy document points to is still in the database
RecordExists(d) == d \in {8, 9}
\* obj.get_pk_name()
PkName(d) == "pk"

\* obj.attributes: the attributes the instance holds now; for a lazy
\* instance these are its lazy_attributes
Attributes(d) ==
    CASE d = 1 -> <<KV("title", Text("Dune"))>>
      [] d = 2 -> <<KV("name", Text("Jane")), KV("a", Dict(<<KV("b", Num(1))>>)),
                    KV("book", Doc(1)), KV("friend", Doc(3))>>
      [] d = 3 -> <<KV("name", Text("Bob")), KV("a", Dict(<<KV("c", Num(2))>>)),
                    KV("friend", Doc(2))>>
      [] d = 4 -> <<KV("name", Text("Eve")), KV("a", None)>>
      [] d = 5 -> <<KV("pk", Num(5)), KV("title", Text("Lost"))>>
      [] d = 6 -> <<KV("title", Text("Emma")), KV("by", Doc(3))>>
      [] d = 7 -> <<>>
      [] d = 8 -> <<KV("title", Text("Saga"))>>
      [] OTHER -> <<KV("pk", Num(9))>>

\* obj.lazy_attributes
LazyAttributes(d) == Attributes(d)

\* the full attributes of the record of a lazy document
StoredAttributes(d) ==
    CASE d = 8 -> <<KV("title", Text("Saga")), KV("sequel", Doc(7))>>
      [] d = 9 -> <<KV("title", Text("Lore")), KV("author", Doc(3))>>
      [] OTHER -> Attributes(d)

\* the exception class cls.DoesNotExist
DoesNotExist(cls) == [type |-> "DoesNotExist", cls |-> cls]

\* obj.eager.attributes: fetches the record of a lazy instance
EagerAttributes(d) ==
    IF ~IsLazy(d) THEN [err |-> NoError, out |-> Attributes(d)]
    ELSE IF RecordExists(d) THEN [err |-> NoError, out |-> StoredAttributes(d)]
    ELSE [err |-> DoesNotExist(DocClass(d)), out |-> <<>>]

\* obj.serialize(embed=True): the full attribute set, inline
DocumentSerialize(d) ==
    LET fetched == EagerAttributes(d)
    IN  [err |-> fetched.err, out |-> Dict(fetched.out)]

\* the primary key the backend's save gives a document
NewPk(d) == Num(100 + d)

\* obj.save(backend): assigns a primary key; saved counts the saves of the call
SaveDocument(d, st) ==
    [st EXCEPT !.pk[d] = NewPk(d), !.saved[d] = @ + 1]

\* except obj.DoesNotExist
Catches(d, err) == err = DoesNotExist(DocClass(d))

(***************************************************************************)
(* Encoders and decoders: (matcher, encoder) pairs, named.                 *)
(***************************************************************************)
NoEncoders == <<>>

Matches(name, obj) ==
    CASE name \in {"inc", "dbl"} -> obj.tag = "int"
      [] name = "legacy" -> obj.tag = "dict" /\ HasKey(obj.items, "id")
      [] OTHER -> FALSE

Encode(name, obj) ==
    CASE name = "inc" -> Num(obj.v + 1)
      [] name = "dbl" -> Num(obj.v * 2)
      [] name = "legacy" -> Dict(SetKey(DelKey(obj.items, "id"), "pk", Lookup(obj.items, "id")))
      [] OTHER -> obj

\* lines 151-154 and 212-215: every pair is tried in order on the current value
RECURSIVE ApplyFrom(_, _, _)
ApplyFrom(encoders, i, obj) ==
    IF i > Len(encoders) THEN obj
    ELSE ApplyFrom(encoders, i + 1,
                   IF Matches(encoders[i], obj) THEN Encode(encoders[i], obj) ELSE obj)

ApplyEncoders(encoders, obj) == ApplyFrom(encoders, 1, obj)

(***************************************************************************)
(* serialize, lines 128-200.  st is what a call changes as it goes: the    *)
(* registry (reg), the primary keys (pk), and two records of the call      *)
(* kept for the properties: the saves (saved) and the documents visited    *)
(* (visits).  hops counts the documents entered above the value.           *)
(***************************************************************************)
\* str(key): the keys of the model are strings
StrKey(key) == key

\* include_key.replace(".", "_")
RECURSIVE FlatKey(_)
FlatKey(fragments) ==
    IF Len(fragments) = 1 THEN fragments[1]
    ELSE fragments[1] \o "_" \o FlatKey(Tail(fragments))

\* current_dict[key_fragment], line 147
GetItem(current, key_fragment) ==
    LET items == IF current.tag = "doc" THEN Attributes(current.id) ELSE current.items
    IN  IF current.tag \notin {"doc", "dict"}
        THEN [err |-> Raise("TypeError"), out |-> None]
        ELSE IF HasKey(items, key_fragment)
        THEN [err |-> NoError, out |-> Lookup(items, key_fragment)]
        ELSE [err |-> Raise("KeyError"), out |-> None]

\* get_value, lines 143-148
RECURSIVE GetValueFrom(_, _, _)
GetValueFrom(current_dict, key_fragments, i) ==
    IF i > Len(key_fragments) THEN [err |-> NoError, out |-> current_dict]
    ELSE LET item == GetItem(current_dict, key_fragments[i])
         IN  IF item.err # NoError THEN item
             ELSE GetValueFrom(item.out, key_fragments, i + 1)

get_value(d, key_fragments) == GetValueFrom(Doc(d), key_fragments, 1)

\* obj.Meta.dbref_includes, line 189
DbrefIncludes(d) ==
    IF "dbref_includes" \in DOMAIN Meta(DocClass(d))
    THEN Meta(DocClass(d))["dbref_includes"]
    ELSE <<>>

\* lines 190-195: the include fields added to the reference, in order
RECURSIVE AddIncludes(_, _, _, _)
AddIncludes(d, includes, i, output_obj) ==
    IF i > Len(includes) THEN [err |-> NoError, out |-> output_obj]
    ELSE LET value == get_value(d, includes[i])
         IN  IF value.err = NoError
             THEN AddIncludes(d, includes, i + 1,
                              SetKey(output_obj, FlatKey(includes[i]), value.out))
             ELSE IF value.err = Raise("KeyError")
             THEN AddIncludes(d, includes, i + 1, output_obj)
             ELSE [err |-> value.err, out |-> output_obj]

\* a save whenever autosave is set, whatever the primary key
NeedsSaveAlways(d, autosave, st) == autosave

\* line 174: obj.pk == None and autosave
NeedsSave(d, autosave, st) == st.pk[d] = None /\ autosave

\* line 185: for_query and not self._allow_documents_in_query
QueryForbidden(for_query) == for_query /\ ~allow_documents_in_query

\* a document is embedded at level 0 too
EmbedsAtZero(embed_level) == embed_level >= 0

\* line 166: whether the document is embedded at this level
Embeds(embed_level) == embed_level > 0

\* lines 177-183: the reference of a lazy instance
LazyReference(d, st) ==
    LET copied == LazyAttributes(d)
        without == IF HasKey(copied, PkName(d)) THEN DelKey(copied, PkName(d)) ELSE copied
        with_pk == SetKey(without, "pk", st.pk[d])
    IN  Dict(SetKey(with_pk, "__collection__",
                    Text(st.reg.classes[DocClass(d)]["collection"])))

\* line 187: the minimal reference
MinimalReference(d, st) ==
    <<KV("pk", st.pk[d]),
      KV("__collection__", Text(st.reg.classes[DocClass(d)]["collection"]))>>

\* the record of a document met by the call: where, how it was emitted, and
\* the reference or inline copy made of it (None when there is none)
Visit(st, d, embed_level, hops, how, out) ==
    [st EXCEPT !.visits = Append(@, [doc |-> d, embed_level |-> embed_level,
                                     hops |-> hops, how |-> how, out |-> out])]

\* lines 171-195: a document at embed_level 0
SerializeAtZero(d, opts, embed_level, hops, st) ==
    IF EmbedFlag(d)
    THEN LET inline == DocumentSerialize(d)
             output_obj == IF inline.err = NoError THEN inline.out ELSE None
         IN  [out |-> output_obj, err |-> inline.err,
              st |-> Visit(st, d, embed_level, hops, "embed", output_obj)]
    ELSE LET st1 == IF NeedsSave(d, opts.autosave, st) THEN SaveDocument(d, st) ELSE st
         IN  IF IsLazy(d)
             THEN LET output_obj == LazyReference(d, st1)
                  IN  [out |-> output_obj, err |-> NoError,
                       st |-> Visit(st1, d, embed_level, hops, "reference", output_obj)]
             ELSE IF QueryForbidden(opts.for_query)
             THEN [out |-> None, err |-> Raise("ValueError"),
                   st |-> Visit(st1, d, embed_level, hops, "reference", None)]
             ELSE LET ref == AddIncludes(d, DbrefIncludes(d), 1, MinimalReference(d, st1))
                      output_obj == IF ref.err = NoError THEN Dict(ref.out) ELSE None
                  IN  [out |-> output_obj, err |-> ref.err,
                       st |-> Visit(st1, d, embed_level, hops, "reference", output_obj)]

RECURSIVE Serialize(_, _, _, _, _, _)
RECURSIVE SerializeEach(_, _, _, _, _)

\* the elements of a list or tuple, or the values of a dict, in order
SerializeEach(values, opts, embed_level, hops, st) ==
    IF values = <<>> THEN [out |-> <<>>, err |-> NoError, st |-> st]
    ELSE LET first == Serialize(Head(values), opts, embed_level, NoEncoders, hops, st)
         IN  IF first.err # NoError THEN [out |-> <<>>, err |-> first.err, st |-> first.st]
             ELSE LET rest == SerializeEach(Tail(values), opts, embed_level, hops, first.st)
                  IN  [out |-> <<first.out>> \o rest.out, err |-> rest.err, st |-> rest.st]

\* lines 157-159: output_obj[str(key) if convert_keys_to_str else key] = ...
RECURSIVE BuildDict(_, _, _, _, _)
BuildDict(items, values, convert_keys_to_str, i, output_obj) ==
    IF i > Len(values) THEN output_obj
    ELSE BuildDict(items, values, convert_keys_to_str, i + 1,
                   SetKey(output_obj,
                          IF convert_keys_to_str THEN StrKey(items[i].k) ELSE items[i].k,
                          values[i]))

\* lines 164-170: a document at embed_level > 0
SerializeEmbedded(d, opts, embed_level, hops, st) ==
    LET st1 == Visit(st, d, embed_level, hops, "inline", None)
        eager == EagerAttributes(d)
        first == IF eager.err # NoError THEN [out |-> None, err |-> eager.err, st |-> st1]
                 ELSE Serialize(Dict(eager.out), opts, embed_level - 1, NoEncoders,
                                hops + 1, st1)
    IN  IF Catches(d, first.err)
        THEN Serialize(Dict(Attributes(d)), opts, embed_level - 1, NoEncoders,
                       hops + 1, first.st)
        ELSE first

Serialize(obj0, opts, embed_level, encoders, hops, st) ==
    LET obj == ApplyEncoders(encoders, obj0)
    IN  CASE obj.tag = "dict" ->
                LET r == SerializeEach([i \in 1..Len(obj.items) |-> obj.items[i].v],
                                       opts, embed_level, hops, st)
                IN  [out |-> Dict(BuildDict(obj.items, r.out, opts.convert_keys_to_str,
                                            1, <<>>)),
                     err |-> r.err, st |-> r.st]
          [] obj.tag \in {"list", "tuple"} ->
                LET r == SerializeEach(obj.items, opts, embed_level, hops, st)
                IN  [out |-> [tag |-> obj.tag, items |-> r.out], err |-> r.err, st |-> r.st]
          [] obj.tag = "doc" ->
                LET looked == GetCollectionForClsIn(st.reg, DocClass(obj.id))
                    st1 == [st EXCEPT !.reg = looked.reg]
                IN  IF Embeds(embed_level)
                    THEN SerializeEmbedded(obj.id, opts, embed_level, hops, st1)
                    ELSE SerializeAtZero(obj.id, opts, embed_level, hops, st1)
          [] OTHER -> [out |-> obj, err |-> NoError, st |-> st]

(***************************************************************************)
(* create_instance, lines 240-261, and deserialize, lines 202-238.         *)
(***************************************************************************)
Instance(cls, attributes, lazy, made_by) ==
    [tag |-> "instance", cls |-> cls, attributes |-> attributes, lazy |-> lazy,
     pk |-> None, made_by |-> made_by]

\* lines 257-261: self.classes[cls] is read without a check
Construct(reg, cls, attributes, lazy) ==
    IF cls \notin DOMAIN reg.classes
    THEN [err |-> Raise("KeyError"), out |-> None]
    ELSE IF "constructor" \in DOMAIN reg.classes[cls]
    THEN [err |-> NoError,
          out |-> Instance(cls, attributes, lazy, reg.classes[cls]["constructor"])]
    ELSE [err |-> NoError, out |-> Instance(cls, attributes, lazy, "class")]

\* lines 250-255
ResolveClass(reg, collection_or_class) ==
    IF collection_or_class \in DOMAIN reg.classes
    THEN [err |-> NoError, out |-> collection_or_class]
    ELSE IF collection_or_class \in DOMAIN reg.collections
    THEN [err |-> NoError, out |-> reg.collections[collection_or_class]]
    ELSE [err |-> Raise("AttributeError"), out |-> ""]

CreateInstanceIn(reg, collection_or_class, attributes, lazy) ==
    LET cls == ResolveClass(reg, collection_or_class)
    IN  IF cls.err # NoError THEN [err |-> cls.err, out |-> None]
        ELSE Construct(reg, cls.out, attributes, lazy)

\* lines 217-222; "" stands for None
PkField(items) ==
    IF HasKey(items, "__pk__") THEN "__pk__"
    ELSE IF HasKey(items, "pk") THEN "pk"
    ELSE ""

\* line 223: obj['__collection__'] in self.collections
InCollections(reg, value) == value.tag = "str" /\ value.v \in DOMAIN reg.collections

\* line 223
IsReference(reg, items) ==
    /\ HasKey(items, "__collection__")
    /\ InCollections(reg, Lookup(items, "__collection__"))
    /\ PkField(items) # ""

RECURSIVE Deserialize(_, _, _)
RECURSIVE DeserializeEach(_, _)

DeserializeEach(values, reg) ==
    IF values = <<>> THEN [out |-> <<>>, err |-> NoError]
    ELSE LET first == Deserialize(Head(values), NoEncoders, reg)
         IN  IF first.err # NoError THEN [out |-> <<>>, err |-> first.err]
             ELSE LET rest == DeserializeEach(Tail(values), reg)
                  IN  [out |-> <<first.out>> \o rest.out, err |-> rest.err]

\* lines 225-229
DeserializeReference(items, reg) ==
    LET pk_field == PkField(items)
        attributes == DelKey(DelKey(items, pk_field), "__collection__")
        made == CreateInstanceIn(reg, Lookup(items, "__collection__").v,
                                 Dict(attributes), TRUE)
    IN  IF made.err # NoError THEN made
        ELSE [err |-> NoError, out |-> [made.out EXCEPT !.pk = Lookup(items, pk_field)]]

Deserialize(obj0, decoders, reg) ==
    LET obj == ApplyEncoders(decoders, obj0)
    IN  CASE obj.tag = "dict" ->
                IF IsReference(reg, obj.items)
                THEN DeserializeReference(obj.items, reg)
                ELSE LET r == DeserializeEach([i \in 1..Len(obj.items) |-> obj.items[i].v],
                                              reg)
                     IN  [err |-> r.err,
                          out |-> Dict(BuildDict(obj.items, r.out, FALSE, 1, <<>>))]
          [] obj.tag \in {"list", "tuple"} ->
                LET r == DeserializeEach(obj.items, reg)
                IN  [err |-> r.err, out |-> List(r.out)]
          [] OTHER -> [err |-> NoError, out |-> obj]

(***************************************************************************)
(* State.  last is the call the single-threaded caller made last and what  *)
(* it returned; "idle" when the caller has taken the result.               *)
(***************************************************************************)
Idle == [op |-> "idle"]

\* the primary keys the documents of the application start with
InitialPk ==
    [d \in DocIds |->
        CASE d = 1 -> Num(7)
          [] d \in {2, 3} -> None
          [] d = 7 -> Num(17)
          [] OTHER -> Num(d)]

\* lines 44-50: Backend.__init__
Init ==
    \E autodiscover_classes \in BOOLEAN :
        LET empty == Registry(EmptyDict, EmptyDict)
            reg == IF autodiscover_classes THEN AutodiscoverFrom(empty, 1) ELSE empty
        IN  /\ classes = reg.classes
            /\ collections = reg.collections
            /\ allow_documents_in_query \in BOOLEAN
            /\ pk = InitialPk
            /\ last = Idle

\* the parameters the application registers classes with
RegisterParameters ==
    {EmptyDict, ("constructor" :> "factory"), ("collection" :> "shelf"),
     ("collection" :> "book")}

\* the values the application serializes
SerializeValues ==
    {Doc(d) : d \in DocIds}
        \cup {Dict(<<KV("name", Text("Jane")), KV("book", Doc(1))>>),
              Dict(<<KV("first", Doc(3)), KV("second", Doc(8))>>),
              List(<<Doc(2), Doc(2)>>),
              Tuple(<<Doc(3), Doc(6)>>)}

ScalarValues == {Num(1), List(<<Num(1)>>)}

EncoderLists == {<<"inc">>, <<"inc", "dbl">>}

\* the dicts are serialized with convert_keys_to_str set, as for MongoDB
SerializeCalls ==
    {[obj |-> v, encoders |-> NoEncoders, convert_keys_to_str |-> v.tag = "dict"] :
        v \in SerializeValues}
        \cup {[obj |-> v, encoders |-> e, convert_keys_to_str |-> FALSE] :
                v \in ScalarValues, e \in EncoderLists}

\* the stored data the application deserializes
DeserializeCalls ==
    {[obj |-> v, decoders |-> NoEncoders] :
        v \in {Dict(<<KV("pk", Num(7)), KV("__collection__", Text("book"))>>),
               Dict(<<KV("__pk__", Num(7)), KV("__collection__", Text("author")),
                      KV("name", Text("Jane"))>>),
               Dict(<<KV("pk", Num(1)), KV("__collection__", Text("shelf"))>>),
               Dict(<<KV("pk", Num(1)), KV("__collection__", Text("nowhere"))>>),
               Dict(<<KV("__collection__", Text("book")), KV("title", Text("Dune"))>>),
               Dict(<<KV("pk", Num(1)), KV("__collection__", Num(1))>>),
               Dict(<<KV("name", Text("Jane")),
                      KV("book", Dict(<<KV("pk", Num(7)),
                                        KV("__collection__", Text("book"))>>))>>),
               Tuple(<<Num(1), Dict(<<KV("pk", Num(3)),
                                      KV("__collection__", Text("author"))>>)>>),
               Num(1)}}
        \cup {[obj |-> Dict(<<KV("id", Num(7)), KV("__collection__", Text("book"))>>),
               decoders |-> <<"legacy">>]}

\* register(cls, parameters), lines 61-101
Register(cls, parameters) ==
    /\ last = Idle
    /\ classes' = RegisterClasses(classes, cls, parameters)
    /\ collections' = RegisterCollections(collections, cls, parameters)
    /\ last' = [op |-> "register", cls |-> cls, parameters |-> parameters,
                collection_name |-> ResolveCollectionName(cls, parameters),
                classes_before |-> classes]
    /\ UNCHANGED <<allow_documents_in_query, pk>>

\* autoregister(cls), lines 118-126
Autoregister(cls) ==
    /\ last = Idle
    /\ LET r == AutoregisterIn(Registry(classes, collections), cls)
       IN  /\ classes' = r.classes
           /\ collections' = r.collections
    /\ last' = [op |-> "register", cls |-> cls, parameters |-> get_meta_attributes(cls),
                collection_name |-> ResolveCollectionName(cls, get_meta_attributes(cls)),
                classes_before |-> classes]
    /\ UNCHANGED <<allow_documents_in_query, pk>>

\* get_collection_for_cls(cls), lines 273-287
GetCollectionForCls(cls) ==
    /\ last = Idle
    /\ LET r == GetCollectionForClsIn(Registry(classes, collections), cls)
       IN  /\ classes' = r.reg.classes
           /\ collections' = r.reg.collections
           /\ last' = [op |-> "get_collection_for_cls", cls |-> cls,
                       out |-> r.out, err |-> r.err, classes_before |-> classes]
    /\ UNCHANGED <<allow_documents_in_query, pk>>

\* get_cls_for_collection(collection), lines 289-300
GetClsForCollection(collection) ==
    /\ last = Idle
    /\ LET r == GetClsForCollectionIn(Registry(classes, collections), collection)
       IN  last' = [op |-> "get_cls_for_collection", collection |-> collection,
                    out |-> r.out, err |-> r.err]
    /\ UNCHANGED <<classes, collections, allow_documents_in_query, pk>>

\* create_instance(collection_or_class, attributes, lazy), lines 240-261
CreateInstance(collection_or_class, lazy) ==
    /\ last = Idle
    /\ LET r == CreateInstanceIn(Registry(classes, collections), collection_or_class,
                                 Dict(<<KV("title", Text("Dune"))>>), lazy)
       IN  last' = [op |-> "create_instance", collection_or_class |-> collection_or_class,
                    out |-> r.out, err |-> r.err]
    /\ UNCHANGED <<classes, collections, allow_documents_in_query, pk>>

\* serialize(obj, convert_keys_to_str, embed_level, encoders, autosave, for_query)
SerializeCall(call, embed_level, autosave, for_query) ==
    /\ last = Idle
    /\ LET opts == [convert_keys_to_str |-> call.convert_keys_to_str, autosave |-> autosave,
                    for_query |-> for_query]
           st == [reg |-> Registry(classes, collections), pk |-> pk,
                  saved |-> [d \in DocIds |-> 0], visits |-> <<>>]
           r == Serialize(call.obj, opts, embed_level, call.encoders, 0, st)
       IN  /\ classes' = r.st.reg.classes
           /\ collections' = r.st.reg.collections
           /\ pk' = r.st.pk
           /\ last' = [op |-> "serialize", obj |-> call.obj, encoders |-> call.encoders,
                       opts |-> opts, embed_level |-> embed_level,
                       out |-> IF r.err = NoError THEN r.out ELSE None, err |-> r.err,
                       saved |-> r.st.saved, visits |-> r.st.visits,
                       pk_before |-> pk, classes_before |-> classes]
    /\ UNCHANGED allow_documents_in_query

\* deserialize(obj, decoders)
DeserializeCall(call) ==
    /\ last = Idle
    /\ LET r == Deserialize(call.obj, call.decoders, Registry(classes, collections))
       IN  last' = [op |-> "deserialize", obj |-> call.obj, decoders |-> call.decoders,
                    out |-> r.out, err |-> r.err]
    /\ UNCHANGED <<classes, collections, allow_documents_in_query, pk>>

\* deserialize(serialize(...)): the caller reads back what it has just serialized
DeserializeSerialized ==
    /\ last.op = "serialize"
    /\ last.err = NoError
    /\ LET r == Deserialize(last.out, NoEncoders, Registry(classes, collections))
       IN  last' = [op |-> "roundtrip", call |-> last, out |-> r.out, err |-> r.err]
    /\ UNCHANGED <<classes, collections, allow_documents_in_query, pk>>

\* the caller takes the result of its last call
Return ==
    /\ last # Idle
    /\ last' = Idle
    /\ UNCHANGED <<classes, collections, allow_documents_in_query, pk>>

\* the registry, the instance factory and the deserializer
RegistryNext ==
    \/ \E cls \in DocumentClasses, parameters \in RegisterParameters :
            Register(cls, parameters)
    \/ \E cls \in DocumentClasses : Autoregister(cls)
    \/ \E cls \in DocumentClasses \cup PlainClasses : GetCollectionForCls(cls)
    \/ \E collection \in CollectionNames : GetClsForCollection(collection)
    \/ \E collection_or_class \in DocumentClasses \cup CollectionNames, lazy \in BOOLEAN :
            CreateInstance(collection_or_class, lazy)
    \/ \E call \in DeserializeCalls : DeserializeCall(call)
    \/ Return

\* the serializer, with the classes registered as they are met
SerializeNext ==
    \/ Register("Author", ("collection" :> "shelf"))
    \/ \E call \in SerializeCalls, embed_level \in 0..MaxEmbedLevel,
          autosave \in BOOLEAN, for_query \in BOOLEAN :
            SerializeCall(call, embed_level, autosave, for_query)
    \/ DeserializeSerialized
    \/ Return

Next == RegistryNext \/ SerializeNext

Spec == Init /\ [][Next]_vars

RegistrySpec == Init /\ [][RegistryNext]_vars

SerializeSpec == Init /\ [][SerializeNext]_vars

(***************************************************************************)
(* Properties of the registry.                                             *)
(***************************************************************************)
\* the collection of a registry entry
CollectionOf(cls_map, cls) == cls_map[cls]["collection"]

\* the other classes that owned the name a registration resolved to
EvictedBy(call) ==
    {c \in DOMAIN call.classes_before \ {call.cls} :
        CollectionOf(call.classes_before, c) = call.collection_name}

\* C1: a collection name is owned by at most one registry entry and the
\* reverse index maps the name of every entry to that entry's class; after a
\* registration the classes that owned the name before have no entry and
\* get_cls_for_collection of the name returns the registered class; a
\* registration that repeats an entry leaves the registry as it was.
C1_OneOwnerPerCollection ==
    /\ \A c1, c2 \in DOMAIN classes :
            CollectionOf(classes, c1) = CollectionOf(classes, c2) => c1 = c2
    /\ \A c \in DOMAIN classes :
            /\ CollectionOf(classes, c) \in DOMAIN collections
            /\ collections[CollectionOf(classes, c)] = c
    /\ last.op = "register" =>
            /\ EvictedBy(last) \cap DOMAIN classes = {}
            /\ GetClsForCollectionIn(Registry(classes, collections), last.collection_name)
                    = [err |-> NoError, out |-> last.cls]
            /\ (/\ last.cls \in DOMAIN last.classes_before
                /\ last.classes_before[last.cls]
                        = StoredParameters(last.parameters, last.collection_name))
                    => classes = last.classes_before

\* a registration has evicted the class that owned the name
C1_Witness ==
    /\ last.op = "register"
    /\ EvictedBy(last) # {}

\* a registration has repeated an entry
C1_WitnessRepeated ==
    /\ last.op = "register"
    /\ last.cls \in DOMAIN last.classes_before
    /\ last.classes_before[last.cls]
            = StoredParameters(last.parameters, last.collection_name)

\* C2: every name of the reverse index is the collection of a registry entry
\* of the same class: get_cls_for_collection succeeds on it and returns the
\* class the reverse index holds.
C2_NoOrphanedName ==
    \A n \in DOMAIN collections :
        GetClsForCollectionIn(Registry(classes, collections), n)
            = [err |-> NoError, out |-> collections[n]]

\* C3: deserialize of a mapping does not fail; with a primary-key field and
\* a __collection__ the reverse index knows it returns a lazy instance of the
\* class registered for the collection, made of the remaining fields, with
\* the primary key set; any other mapping gives a mapping with the same keys.
C3_DeserializeNeverFails ==
    (last.op = "deserialize" /\ last.obj.tag = "dict") =>
        LET items == ApplyEncoders(last.decoders, last.obj).items
            reg == Registry(classes, collections)
        IN  /\ last.err = NoError
            /\ IF IsReference(reg, items)
               THEN /\ last.out.tag = "instance"
                    /\ last.out.lazy
                    /\ last.out.cls = collections[Lookup(items, "__collection__").v]
                    /\ last.out.pk = Lookup(items, PkField(items))
                    /\ last.out.attributes
                            = Dict(DelKey(DelKey(items, PkField(items)), "__collection__"))
               ELSE /\ last.out.tag = "dict"
                    /\ {last.out.items[i].k : i \in 1..Len(last.out.items)}
                            = {items[i].k : i \in 1..Len(items)}

(***************************************************************************)
(* Properties of the serializer.                                           *)
(***************************************************************************)
\* the items of a dict, without their order
ItemSet(items) == {items[i] : i \in 1..Len(items)}

\* the include fields of a document: every configured path present on it,
\* under its key with dots replaced by underscores
IncludedFields(d) ==
    {KV(FlatKey(DbrefIncludes(d)[i]), get_value(d, DbrefIncludes(d)[i]).out) :
        i \in {j \in 1..Len(DbrefIncludes(d)) :
                    get_value(d, DbrefIncludes(d)[j]).err = NoError}}

\* serialize(d, embed_level=0, autosave=True) of a document, other options default
IsReferenceCallOfDocument(call) ==
    /\ call.obj.tag = "doc"
    /\ call.encoders = NoEncoders
    /\ call.embed_level = 0
    /\ call.opts.autosave
    /\ ~call.opts.for_query

\* C4: for a document d of a registered class, serialize(d, embed_level=0,
\* autosave=True) succeeds and deserialize of its result is a lazy instance
\* of d's class whose primary key is d's and whose attributes are exactly
\* d's include fields.
C4_RoundTrip ==
    /\ (/\ last.op = "serialize"
        /\ IsReferenceCallOfDocument(last)
        /\ DocClass(last.obj.id) \in DOMAIN last.classes_before)
            => last.err = NoError
    /\ (/\ last.op = "roundtrip"
        /\ IsReferenceCallOfDocument(last.call)
        /\ DocClass(last.call.obj.id) \in DOMAIN last.call.classes_before)
            => /\ last.err = NoError
               /\ last.out.tag = "instance"
               /\ last.out.lazy
               /\ last.out.cls = DocClass(last.call.obj.id)
               /\ last.out.pk = pk[last.call.obj.id]
               /\ ItemSet(last.out.attributes.items) = IncludedFields(last.call.obj.id)

\* the visits of the call that emitted a reference
ReferenceVisits(call) ==
    {i \in 1..Len(call.visits) : call.visits[i].how = "reference"}

\* C5: in a serialize call a document is saved at most once, and only if it
\* had no primary key and autosave is set; a document without a primary key
\* that is met in the reference case with autosave set is saved exactly once,
\* however often it occurs, and every reference made of it carries the
\* primary key the save gave it; with autosave unset nothing is saved.
C5_AutosaveOnce ==
    last.op = "serialize" =>
        /\ \A d \in DocIds :
                /\ last.saved[d] <= 1
                /\ last.saved[d] = 1 =>
                        /\ last.pk_before[d] = None
                        /\ last.opts.autosave
                        /\ pk[d] # None
                /\ last.saved[d] = 0 => pk[d] = last.pk_before[d]
        /\ \A i \in ReferenceVisits(last) :
                LET v == last.visits[i]
                IN  /\ (last.pk_before[v.doc] = None /\ last.opts.autosave)
                            => last.saved[v.doc] = 1
                    /\ (v.out # None /\ last.opts.autosave) =>
                            /\ Lookup(v.out.items, "pk") # None
                            /\ Lookup(v.out.items, "pk") = pk[v.doc]

\* an unsaved document occurred twice in the value and was saved once
C5_Witness ==
    /\ last.op = "serialize"
    /\ last.err = NoError
    /\ \E i, j \in ReferenceVisits(last) :
            /\ i # j
            /\ last.visits[i].doc = last.visits[j].doc
            /\ last.pk_before[last.visits[i].doc] = None
            /\ last.saved[last.visits[i].doc] = 1

\* C6: serialize of a document that is not lazy and not embedded fails with
\* the query error when for_query is set and documents are not allowed in
\* queries, and otherwise succeeds with the reference {pk, __collection__}
\* and the include fields; the query error is raised in no other case and
\* never for a lazy instance.
C6_QueryRestriction ==
    last.op = "serialize" =>
        /\ (/\ last.obj.tag = "doc"
            /\ last.encoders = NoEncoders
            /\ last.embed_level = 0
            /\ ~IsLazy(last.obj.id)
            /\ ~EmbedFlag(last.obj.id))
                => IF last.opts.for_query /\ ~allow_documents_in_query
                   THEN last.err = Raise("ValueError")
                   ELSE /\ last.err = NoError
                        /\ ItemSet(last.out.items)
                                = {KV("pk", pk[last.obj.id]),
                                   KV("__collection__",
                                      Text(CollectionOf(classes, DocClass(last.obj.id))))}
                                    \cup IncludedFields(last.obj.id)
        /\ last.err = Raise("ValueError") =>
                /\ last.opts.for_query
                /\ ~allow_documents_in_query
                /\ LET v == last.visits[Len(last.visits)]
                   IN  /\ v.how = "reference"
                       /\ v.embed_level = 0
                       /\ ~IsLazy(v.doc)
                       /\ ~EmbedFlag(v.doc)

\* the documents among the elements of a list or tuple or the values of a dict
DocumentsIn(obj) ==
    IF obj.tag = "dict" THEN {i \in 1..Len(obj.items) : obj.items[i].v.tag = "doc"}
    ELSE IF obj.tag \in {"list", "tuple"}
    THEN {i \in 1..Len(obj.items) : obj.items[i].tag = "doc"}
    ELSE {}

\* what C7 says of every document a call meets, but for the way a document
\* met at level 0 is emitted
LevelsDecrease(call) ==
    /\ \A i \in 1..Len(call.visits) :
            LET v == call.visits[i]
            IN  /\ v.embed_level = call.embed_level - v.hops
                /\ v.hops <= call.embed_level
                /\ v.embed_level > 0 <=> v.how = "inline"
    /\ (call.err = NoError /\ call.embed_level = 1) =>
            Cardinality({i \in 1..Len(call.visits) : call.visits[i].hops = 0})
                = IF call.obj.tag = "doc" THEN 1 ELSE Cardinality(DocumentsIn(call.obj))

\* C7 as claimed: every document a serialize call meets is met at the level
\* embed_level minus the documents entered above it, which is never negative;
\* it is inlined if that level is positive and emitted as a reference if it
\* is 0; at embed_level 1 every document of the value is inlined once.
C7_DepthOriginal ==
    last.op = "serialize" =>
        /\ LevelsDecrease(last)
        /\ \A i \in 1..Len(last.visits) :
                last.visits[i].embed_level = 0 => last.visits[i].how = "reference"

\* C7, amended: as claimed, but a document met at level 0 whose embed flag is
\* set is not emitted as a reference: its own serialization inlines it.
C7_EmbeddingDepth ==
    last.op = "serialize" =>
        /\ LevelsDecrease(last)
        /\ \A i \in 1..Len(last.visits) :
                last.visits[i].embed_level = 0 =>
                    last.visits[i].how
                        = IF EmbedFlag(last.visits[i].doc) THEN "embed" ELSE "reference"

\* a document of a cycle was inlined at embed_level 2 and, two documents
\* deeper, emitted as a reference
C7_Witness ==
    /\ last.op = "serialize"
    /\ last.err = NoError
    /\ last.embed_level = 2
    /\ \E i, j \in 1..Len(last.visits) :
            /\ last.visits[i].doc = last.visits[j].doc
            /\ last.visits[i].how = "inline" /\ last.visits[i].hops = 0
            /\ last.visits[j].how = "reference" /\ last.visits[j].hops = 2

\* C8: serialize of a document at embed_level > 0 whose record is gone does
\* not fail and returns its known attributes serialized; a DoesNotExist
\* raised where a document is met at level 0 is the error of the call.
C8_DoesNotExistHandling ==
    last.op = "serialize" =>
        /\ (/\ last.obj.tag = "doc"
            /\ last.embed_level > 0
            /\ EagerAttributes(last.obj.id).err # NoError)
                => /\ last.err = NoError
                   /\ last.out = Dict(Attributes(last.obj.id))
        /\ \A i \in 1..Len(last.visits) :
                (/\ last.visits[i].embed_level = 0
                 /\ last.visits[i].how = "embed"
                 /\ DocumentSerialize(last.visits[i].doc).err # NoError)
                    => last.err = DocumentSerialize(last.visits[i].doc).err

\* only the first pair that matches is applied
\* of the encoders, in order
RECURSIVE ApplyFirstFrom(_, _, _)
ApplyFirstFrom(encoders, i, obj) ==
    IF i > Len(encoders) THEN obj
    ELSE IF Matches(encoders[i], obj) THEN Encode(encoders[i], obj)
    ELSE ApplyFirstFrom(encoders, i + 1, obj)

\* every value the recursion visits, encoded by the first pair that matches
RECURSIVE EncodedByFirstMatch(_, _)
EncodedByFirstMatch(encoders, obj) ==
    LET encoded == ApplyFirstFrom(encoders, 1, obj)
    IN  IF encoded.tag \in {"list", "tuple"}
        THEN [encoded EXCEPT !.items =
                [i \in 1..Len(encoded.items) |->
                    EncodedByFirstMatch(encoders, encoded.items[i])]]
        ELSE encoded

\* C9: serialize with encoders applies to every value it visits the first
\* pair whose matcher matches, once, and no later pair.
C9_FirstMatchOnly ==
    (last.op = "serialize" /\ last.encoders # NoEncoders) =>
        last.out = EncodedByFirstMatch(last.encoders, last.obj)

====
